---------------------------- MODULE Spec2Model ----------------------------
(***************************************************************************)
(* A model of the scientific calculator of script.js and of the bridge to  *)
(* it that ai-nl.js uses: the tokenizer, the shunting-yard conversion and  *)
(* the RPN evaluator as operators computed the way the code computes them, *)
(* and the input handler, the history list, the DEG/RAD toggle and the     *)
(* global evaluator as actions over the calculator's state.                *)
(*                                                                         *)
(* Numbers.  A JavaScript number is modelled by a record [k, n, d]:        *)
(*   k = "rat"    the exact rational n/d (d > 0, lowest terms; n = 0 is +0)*)
(*   k = "nzero"  the negative zero -0                                     *)
(*   k = "inf"    +Infinity (n = 1) or -Infinity (n = -1)                  *)
(*   k = "nan"    NaN                                                      *)
(*   k = "irr"    a finite double of moderate size whose exact value the   *)
(*                model does not track (sqrt 2, ln 3, e - 7, ...); the     *)
(*                constants and the results of the trig functions are such *)
(*                values too and keep their origin: k = "pi", k = "e", and *)
(*                k = "sin.deg", "sin.rad", "cos.deg", ... with n/d the    *)
(*                argument of the call                                     *)
(*   k = "big"    a finite positive double too large for the exact range   *)
(*                (12!, ..., 170!)                                         *)
(*   k = "unrep"  a value about which the model knows nothing: whenever a  *)
(*                decision of the code depends on such a value the whole   *)
(*                evaluation has the outcome "unrep"; the properties speak *)
(*                about evaluations whose outcome the model decides.       *)
(* Rationals are exact; the rounding of binary floating point is outside   *)
(* the model.                                                              *)
(***************************************************************************)
EXTENDS Integers, Sequences, FiniteSets, TLC

(***************************************************************************)
(* Bounds of the model (not program constants).                            *)
(***************************************************************************)
\* numerators and denominators of exact rationals stay within MaxAbs
MaxAbs == 100000000
\* operand literals of generated expressions are 0 .. MaxNum
MaxNum == 2
\* generated arithmetic expressions have at most MaxOperands operands
MaxOperands == 3

-----------------------------------------------------------------------------
(***************************************************************************)
(* Values                                                                  *)
(***************************************************************************)
Abs(x) == IF x < 0 THEN -x ELSE x

RECURSIVE Gcd(_, _)
Gcd(a, b) == IF b = 0 THEN a ELSE Gcd(b, a % b)

V(k, n, d) == [k |-> k, n |-> n, d |-> d]

Zero    == V("rat", 0, 1)
One     == V("rat", 1, 1)
NegZero == V("nzero", 0, 1)
PosInf  == V("inf", 1, 1)
NegInf  == V("inf", -1, 1)
NaN     == V("nan", 0, 1)
Irr     == V("irr", 0, 1)
Big     == V("big", 0, 1)
Unrep   == V("unrep", 0, 1)

\* x * y computed only when it stays in the exact range
Fits(x, y) == x = 0 \/ y = 0 \/ Abs(x) <= MaxAbs \div Abs(y)

\* the rational n/d (d # 0) in lowest terms, or Unrep outside the exact range
MkRat(n, d) ==
  LET s == IF d < 0 THEN -1 ELSE 1
      g == Gcd(Abs(n), Abs(d))
      nn == (s * n) \div g
      dd == (s * d) \div g
  IN  IF Abs(nn) > MaxAbs \/ dd > MaxAbs THEN Unrep ELSE V("rat", nn, dd)

IntV(n) == V("rat", n, 1)

\* the kinds of values with a special meaning; every other kind is a finite
\* double the model does not track exactly
SpecialKinds == {"rat", "nzero", "inf", "nan", "big", "unrep"}
Opq(v) == v.k \notin SpecialKinds
PiV == V("pi", 0, 1)
EV  == V("e", 0, 1)

IsZero(v)   == v.k = "nzero" \/ (v.k = "rat" /\ v.n = 0)
IsExact(v)  == v.k \in {"rat", "nzero"}
IsInteger(v) == v.k = "nzero" \/ (v.k = "rat" /\ v.d = 1)
\* Number.isFinite, for the values the model decides it for
IsFiniteV(v) == v.k \in {"rat", "nzero", "big"} \/ Opq(v)
NonFinite(v) == v.k \in {"inf", "nan"}
\* the sign bit of an exact or infinite value
SignBit(v)  == v.k = "nzero" \/ (v.k \in {"rat", "inf"} /\ v.n < 0)
ZeroS(neg)  == IF neg THEN NegZero ELSE Zero
InfS(neg)   == IF neg THEN NegInf ELSE PosInf
Xor(p, q)   == (p /\ ~q) \/ (~p /\ q)
\* for an exact rational a and an integer m: a < m, a > m
FloorRat(a) == a.n \div a.d
LtInt(a, m) == FloorRat(a) < m
GtInt(a, m) == FloorRat(a) > m \/ (FloorRat(a) = m /\ a.d # 1)

\* -a
Negate(a) ==
  CASE a.k = "rat" /\ a.n = 0 -> NegZero
    [] a.k = "rat"            -> V("rat", -a.n, a.d)
    [] a.k = "nzero"          -> Zero
    [] a.k = "inf"            -> V("inf", -a.n, 1)
    [] a.k = "big"            -> Unrep
    [] a.k \in {"nan", "unrep"} -> a
    [] OTHER                  -> Irr

\* a + b
Add(a, b) ==
  CASE a.k = "unrep" \/ b.k = "unrep" -> Unrep
    [] a.k = "big" \/ b.k = "big"     -> Unrep
    [] a.k = "nan" \/ b.k = "nan"     -> NaN
    [] a.k = "inf" /\ b.k = "inf"     -> IF a.n = b.n THEN a ELSE NaN
    [] a.k = "inf"                    -> a
    [] b.k = "inf"                    -> b
    [] Opq(a) \/ Opq(b)     -> Irr
    [] IsZero(a) /\ IsZero(b)         ->
         IF a.k = "nzero" /\ b.k = "nzero" THEN NegZero ELSE Zero
    [] IsZero(a)                      -> b
    [] IsZero(b)                      -> a
    [] OTHER ->
         LET g  == Gcd(a.d, b.d)
             bd == b.d \div g
             ad == a.d \div g
         IN  IF Fits(a.n, bd) /\ Fits(b.n, ad) /\ Fits(a.d, bd)
             THEN MkRat(a.n * bd + b.n * ad, a.d * bd)
             ELSE Unrep

\* a - b
Sub(a, b) == IF b.k = "big" THEN Unrep ELSE Add(a, Negate(b))

\* a * b
Mul(a, b) ==
  LET neg == Xor(SignBit(a), SignBit(b)) IN
  CASE a.k = "unrep" \/ b.k = "unrep" -> Unrep
    [] a.k = "big" \/ b.k = "big"     -> Unrep
    [] a.k = "nan" \/ b.k = "nan"     -> NaN
    [] a.k = "inf" \/ b.k = "inf"     ->
         IF IsZero(a) \/ IsZero(b) THEN NaN
         ELSE IF Opq(a) \/ Opq(b) THEN Unrep
         ELSE InfS(neg)
    [] Opq(a) \/ Opq(b)     ->
         IF IsZero(a) \/ IsZero(b) THEN Unrep ELSE Irr
    [] IsZero(a) \/ IsZero(b)         -> ZeroS(neg)
    [] OTHER ->
         LET g1 == Gcd(Abs(a.n), b.d)
             g2 == Gcd(Abs(b.n), a.d)
             n1 == a.n \div g1
             n2 == b.n \div g2
             d1 == a.d \div g2
             d2 == b.d \div g1
         IN  IF Fits(n1, n2) /\ Fits(d1, d2)
             THEN MkRat(n1 * n2, d1 * d2)
             ELSE Unrep

\* a / b
Div(a, b) ==
  LET neg == Xor(SignBit(a), SignBit(b)) IN
  CASE a.k = "unrep" \/ b.k = "unrep" -> Unrep
    [] a.k = "big" \/ b.k = "big"     -> Unrep
    [] a.k = "nan" \/ b.k = "nan"     -> NaN
    [] a.k = "inf" ->
         IF b.k = "inf" THEN NaN
         ELSE IF Opq(b) THEN Unrep
         ELSE InfS(neg)
    [] b.k = "inf" -> IF Opq(a) THEN Unrep ELSE ZeroS(neg)
    [] IsZero(b) ->
         IF IsZero(a) THEN NaN
         ELSE IF Opq(a) THEN Unrep
         ELSE InfS(neg)
    [] Opq(b) -> Unrep
    [] Opq(a) -> Irr
    [] IsZero(a)   -> ZeroS(neg)
    [] OTHER ->
         LET g1 == Gcd(Abs(a.n), Abs(b.n))
             g2 == Gcd(a.d, b.d)
             n1 == a.n \div g1
             n2 == b.n \div g1
             d1 == a.d \div g2
             d2 == b.d \div g2
         IN  IF Fits(n1, d2) /\ Fits(d1, n2)
             THEN MkRat(n1 * d2, d1 * n2)
             ELSE Unrep

RECURSIVE PowAcc(_, _, _)
\* acc * a^e by repeated multiplication, given up as soon as the product
\* leaves the exact range
PowAcc(acc, a, e) ==
  IF e = 0 \/ acc.k = "unrep" THEN acc ELSE PowAcc(Mul(acc, a), a, e - 1)

\* a^e for an exact non-zero rational a and an integer e >= 1
IntPow(a, e) ==
  IF a.d = 1 /\ Abs(a.n) = 1
  THEN (IF a.n = -1 /\ e % 2 = 1 THEN IntV(-1) ELSE One)
  ELSE PowAcc(One, a, e)

OddInt(b) == b.k = "rat" /\ b.d = 1 /\ b.n % 2 = 1

\* Math.pow(a, b)
Pow(a, b) ==
  CASE a.k = "unrep" \/ b.k = "unrep" -> Unrep
    [] IsZero(b)                      -> One
    [] a.k = "nan" \/ b.k = "nan"     -> NaN
    [] a.k = "big" \/ b.k = "big"     -> Unrep
    [] Opq(a) \/ Opq(b)               -> Unrep
    [] b.k = "inf" ->
         IF a.k = "inf" THEN (IF b.n > 0 THEN PosInf ELSE Zero)
         ELSE IF IsZero(a) THEN (IF b.n > 0 THEN Zero ELSE PosInf)
         ELSE IF Abs(a.n) = a.d THEN NaN
         ELSE IF Abs(a.n) > a.d THEN (IF b.n > 0 THEN PosInf ELSE Zero)
         ELSE (IF b.n > 0 THEN Zero ELSE PosInf)
    [] a.k = "inf" ->
         IF a.n > 0 THEN (IF b.n > 0 THEN PosInf ELSE Zero)
         ELSE IF b.n > 0 THEN InfS(OddInt(b))
         ELSE ZeroS(OddInt(b))
    [] IsZero(a) ->
         IF b.n > 0 THEN ZeroS(a.k = "nzero" /\ OddInt(b))
         ELSE InfS(a.k = "nzero" /\ OddInt(b))
    [] b.d = 1 ->
         LET p == IntPow(a, Abs(b.n))
         IN  IF b.n > 0 THEN p ELSE Div(One, p)
    [] OTHER ->
         \* a non-integer exponent
         IF a.n < 0 THEN NaN
         ELSE IF a = One THEN One
         ELSE IF Abs(b.n) < b.d THEN Irr
         ELSE Unrep

RECURSIVE ISqrtBS(_, _, _)
\* the largest r in lo .. hi with r * r <= n (lo * lo <= n)
ISqrtBS(n, lo, hi) ==
  IF lo >= hi THEN lo
  ELSE LET mid == (lo + hi + 1) \div 2
       IN  IF mid <= n \div mid THEN ISqrtBS(n, mid, hi)
           ELSE ISqrtBS(n, lo, mid - 1)

ISqrt(n) == ISqrtBS(n, 0, n)
IsSquare(n) == ISqrt(n) * ISqrt(n) = n

\* Math.sqrt(a)
SqrtV(a) ==
  CASE a.k \in {"unrep", "nan", "nzero"} -> a
    [] a.k = "inf" -> IF a.n > 0 THEN PosInf ELSE NaN
    [] a.k = "big" -> Irr
    [] Opq(a)      -> Unrep
    [] a.n < 0     -> NaN
    [] OTHER       ->
         IF IsSquare(a.n) /\ IsSquare(a.d)
         THEN V("rat", ISqrt(a.n), ISqrt(a.d))
         ELSE Irr

\* Math.log(a), and Math.log10(a), which differ only in finite non-zero
\* results the model does not track
LogV(a) ==
  CASE a.k \in {"unrep", "nan"} -> a
    [] a.k = "inf" -> IF a.n > 0 THEN PosInf ELSE NaN
    [] IsZero(a)   -> NegInf
    [] a.k = "big" -> Irr
    [] Opq(a)      -> Unrep
    [] a.n < 0     -> NaN
    [] a = One     -> Zero
    [] OTHER       -> Irr

\* the outcome of a call that may throw: a value, an error, or "unrep" when
\* the decision depends on a value the model does not track
Ok(v)    == [status |-> "ok", v |-> v, err |-> ""]
Err(msg) == [status |-> "error", v |-> NaN, err |-> msg]
Unknown  == [status |-> "unrep", v |-> Unrep, err |-> ""]

RECURSIVE FactLoop(_, _, _)
\* the loop "for (let i = 2; i <= n; i++) r *= i" from i on
FactLoop(r, i, n) ==
  IF i > n THEN r
  ELSE IF ~Fits(r, i) THEN -1
  ELSE FactLoop(r * i, i + 1, n)

\* factorial(n): the largest operand it accepts
FactorialMax == 170

\* factorial without the test "n > 170"
factorialUnlimited(a) ==
  CASE a.k \in {"pi", "e"}      -> Err("Factorial requires integer")
    [] a.k = "unrep" \/ Opq(a) -> Unknown
    [] NonFinite(a)  -> Err("Invalid factorial")
    [] a.k = "big"   -> Err("Result too large")
    [] a.k = "nzero" -> Ok(One)
    [] a.n < 0       -> Err("Invalid factorial")
    [] a.d # 1       -> Err("Factorial requires integer")
    [] OTHER ->
         LET r == FactLoop(1, 2, a.n)
         IN  IF r < 0 THEN Ok(Big) ELSE Ok(IntV(r))

factorial(a) ==
  CASE a.k \in {"pi", "e"}      -> Err("Factorial requires integer")
    [] a.k = "unrep" \/ Opq(a) -> Unknown
    [] NonFinite(a)  -> Err("Invalid factorial")
    [] a.k = "big"   -> Err("Result too large")
    [] a.k = "nzero" -> Ok(One)
    [] a.n < 0       -> Err("Invalid factorial")
    [] a.d # 1       -> Err("Factorial requires integer")
    [] a.n > FactorialMax -> Err("Result too large")
    [] OTHER ->
         LET r == FactLoop(1, 2, a.n)
         IN  IF r < 0 THEN Ok(Big) ELSE Ok(IntV(r))

TrigNames == {"sin", "cos", "tan", "sec", "csc", "cot"}

\* the value of one trig call on a finite argument x; "mode" is "deg" when
\* the argument was scaled by pi/180 and "rad" when it was not.  Scaling
\* keeps a zero a zero (with its sign) and a non-zero value non-zero.
TrigValue(name, x, mode) ==
  LET tracked == V(name \o "." \o mode, x.n, x.d) IN
  CASE IsZero(x) ->
         CASE name \in {"sin", "tan"} -> x
           [] name \in {"cos", "sec"} -> One
           [] OTHER                   -> Div(One, x)
    [] x.k = "rat" -> tracked
    [] x.k = "big" -> Irr
    [] OTHER       -> IF name \in {"csc", "cot"} THEN Unrep ELSE Irr

\* trigOp(name, x) under the flag useDegrees
trigOp(name, x, deg) ==
  CASE x.k = "unrep"       -> Unknown
    [] ~IsFiniteV(x)       -> Err("Invalid trig arg")
    [] name \notin TrigNames -> Err("Unknown trig")
    [] OTHER               -> Ok(TrigValue(name, x, IF deg THEN "deg" ELSE "rad"))

-----------------------------------------------------------------------------
(***************************************************************************)
(* Text.  A string is a sequence of characters, a character a string of    *)
(* length one; the four non-ASCII symbols the code knows are written by    *)
(* their code points.                                                      *)
(***************************************************************************)
DivSign   == "U+00F7"
TimesSign == "U+00D7"
MinusSign == "U+2212"
EmDash    == "U+2014"

DigitSeq == <<"0", "1", "2", "3", "4", "5", "6", "7", "8", "9">>
LowerSeq == <<"a", "b", "c", "d", "e", "f", "g", "h", "i", "j", "k", "l", "m",
              "n", "o", "p", "q", "r", "s", "t", "u", "v", "w", "x", "y", "z">>
UpperSeq == <<"A", "B", "C", "D", "E", "F", "G", "H", "I", "J", "K", "L", "M",
              "N", "O", "P", "Q", "R", "S", "T", "U", "V", "W", "X", "Y", "Z">>
Range(f) == {f[i] : i \in DOMAIN f}

isDigit(c)      == c \in Range(DigitSeq)
isAlpha(c)      == c \in Range(LowerSeq) \cup Range(UpperSeq)
isWhitespace(c) == c \in {" ", "\t", "\n"}
DigitVal(c)     == (CHOOSE i \in DOMAIN DigitSeq : DigitSeq[i] = c) - 1
DigitChar(n)    == DigitSeq[n + 1]
\* a name kept as it was typed
KeepCase(c)     == c
toLowerCase(c)  ==
  IF c \in Range(UpperSeq)
  THEN LowerSeq[CHOOSE i \in DOMAIN UpperSeq : UpperSeq[i] = c]
  ELSE c

\* s[i], or the empty string beyond the end (s[i] || '')
CharAt(s, i) == IF i \in DOMAIN s THEN s[i] ELSE ""

RECURSIVE Join(_)
\* the characters of a sequence as one string
Join(cs) == IF cs = <<>> THEN "" ELSE Head(cs) \o Join(Tail(cs))

RECURSIVE NumRunEndDigits(_, _)
\* a number run that takes digits only
NumRunEndDigits(s, i) ==
  IF i <= Len(s) /\ isDigit(s[i])
  THEN NumRunEndDigits(s, i + 1) ELSE i

RECURSIVE NumRunEnd(_, _)
\* the first index j >= i at which s leaves the class [0-9.]
NumRunEnd(s, i) ==
  IF i <= Len(s) /\ (isDigit(s[i]) \/ s[i] = ".")
  THEN NumRunEnd(s, i + 1) ELSE i

RECURSIVE NameRunEnd(_, _)
\* the first index j >= i at which s leaves the class [a-zA-Z0-9]
NameRunEnd(s, i) ==
  IF i <= Len(s) /\ (isAlpha(s[i]) \/ isDigit(s[i]))
  THEN NameRunEnd(s, i + 1) ELSE i

Count(s, c) == Cardinality({i \in DOMAIN s : s[i] = c})

RECURSIVE DigitsToInt(_, _)
\* the number a digit string denotes, from the accumulator acc on; -1 once
\* it leaves the exact range
DigitsToInt(ds, acc) ==
  IF ds = <<>> THEN acc
  ELSE IF acc < 0 \/ ~Fits(acc, 10) THEN -1
  ELSE DigitsToInt(Tail(ds), acc * 10 + DigitVal(Head(ds)))

RECURSIVE Pow10(_)
\* 10^k, or -1 outside the exact range
Pow10(k) ==
  IF k = 0 THEN 1
  ELSE LET p == Pow10(k - 1) IN IF p < 0 \/ ~Fits(p, 10) THEN -1 ELSE p * 10

RECURSIVE StripTrailingZeros(_)
StripTrailingZeros(ds) ==
  IF ds # <<>> /\ ds[Len(ds)] = "0"
  THEN StripTrailingZeros(SubSeq(ds, 1, Len(ds) - 1))
  ELSE ds

\* parseFloat(numStr) for a run of digits with at most one ".": the
\* rational the decimal denotes
parseFloat(numStr) ==
  LET dot  == IF \E i \in DOMAIN numStr : numStr[i] = "."
              THEN CHOOSE i \in DOMAIN numStr : numStr[i] = "."
              ELSE Len(numStr) + 1
      ip   == SubSeq(numStr, 1, dot - 1)
      fp   == StripTrailingZeros(SubSeq(numStr, dot + 1, Len(numStr)))
      n    == DigitsToInt(ip \o fp, 0)
      d    == Pow10(Len(fp))
  IN  IF n < 0 \/ d < 0 THEN Unrep ELSE MkRat(n, d)

-----------------------------------------------------------------------------
(***************************************************************************)
(* Tokens: { type, value }.  The value of a number token is kept in num,   *)
(* the value of every other token in value.                                *)
(***************************************************************************)
Tok(type, value) == [type |-> type, value |-> value, num |-> Zero]
NumTok(v)        == [type |-> "number", value |-> "", num |-> v]
NullTok          == Tok("null", "")

OkT(toks)  == [status |-> "ok", toks |-> toks, err |-> ""]
ErrT(msg)  == [status |-> "error", toks |-> <<>>, err |-> msg]

BinarySymbols == {"+", "-", "*", "/", "^"}

\* the token a single character other than a digit, "." or a letter makes,
\* or NullTok when the tokenizer does not know the character
SingleCharToken(ch) ==
  CASE ch = "("                 -> Tok("lparen", ch)
    [] ch = ")"                 -> Tok("rparen", ch)
    [] ch = ","                 -> Tok("comma", ch)
    [] ch \in {"!", "%"}        -> Tok("postfix", ch)
    [] ch \in BinarySymbols     -> Tok("op", ch)
    [] ch = DivSign             -> Tok("op", "/")
    [] ch = TimesSign           -> Tok("op", "*")
    [] ch \in {MinusSign, EmDash} -> Tok("op", "-")
    [] OTHER                    -> NullTok

RECURSIVE TokenizeFrom(_, _, _)
\* the loop of tokenize from index i on, tokens being those pushed so far
TokenizeFrom(s, i, tokens) ==
  IF i > Len(s) THEN OkT(tokens)
  ELSE
    LET ch == s[i] IN
    CASE isWhitespace(ch) -> TokenizeFrom(s, i + 1, tokens)
      [] isDigit(ch) \/ (ch = "." /\ isDigit(CharAt(s, i + 1))) ->
           LET j      == NumRunEnd(s, i + 1)
               numStr == SubSeq(s, i, j - 1)
           IN  IF Count(numStr, ".") > 1 THEN ErrT("Invalid number")
               ELSE TokenizeFrom(s, j, Append(tokens, NumTok(parseFloat(numStr))))
      [] isAlpha(ch) ->
           LET j    == NameRunEnd(s, i + 1)
               name == Join([k \in 1 .. (j - i) |-> toLowerCase(s[i + k - 1])])
           IN  TokenizeFrom(s, j, Append(tokens, Tok("name", name)))
      [] OTHER ->
           IF SingleCharToken(ch) = NullTok
           THEN ErrT("Unexpected character: " \o ch)
           ELSE TokenizeFrom(s, i + 1, Append(tokens, SingleCharToken(ch)))

tokenize(s) == TokenizeFrom(s, 1, <<>>)

-----------------------------------------------------------------------------
(***************************************************************************)
(* Shunting-yard                                                           *)
(***************************************************************************)
\* OPS[o].prec
Prec(o) ==
  CASE o \in {"+", "-"} -> 2
    [] o \in {"*", "/"} -> 3
    [] o = "^"          -> 4

\* OPS[o].assoc
Assoc(o) == IF o = "^" THEN "R" ELSE "L"

\* OPS[o].fn(a, b)
ApplyOp(o, a, b) ==
  CASE o = "+" -> Add(a, b)
    [] o = "-" -> Sub(a, b)
    [] o = "*" -> Mul(a, b)
    [] o = "/" -> Div(a, b)
    [] o = "^" -> Pow(a, b)

UnaryMinusTok == Tok("func", "u-")

\* isUnary: the operator token t, met after prevToken, is a unary minus
isUnary(t, prevToken) ==
  t.value = "-" /\ (prevToken = NullTok
                    \/ prevToken.type \in {"op", "lparen", "comma"})

\* PopsBefore with the comparison of a left-associative operator made
\* strict
PopsBeforeStrict(o1, o2) == Prec(o1) < Prec(o2)

\* the operator o2 on top of the stack goes to the output before o1 is
\* pushed
PopsBefore(o1, o2) ==
  \/ Assoc(o1) = "L" /\ Prec(o1) <= Prec(o2)
  \/ Assoc(o1) = "R" /\ Prec(o1) < Prec(o2)

\* the state of toRPN: the output, the operator stack (its top is its last
\* element) and the message of the error thrown, "" while none is
RpnState(output, stack, err) == [output |-> output, stack |-> stack, err |-> err]
Top(stack)  == stack[Len(stack)]
Pop(stack)  == SubSeq(stack, 1, Len(stack) - 1)

RECURSIVE PopUntilLParen(_)
\* while (stack.length && top.type !== 'lparen') output.push(stack.pop())
PopUntilLParen(st) ==
  IF st.stack # <<>> /\ Top(st.stack).type # "lparen"
  THEN PopUntilLParen(RpnState(Append(st.output, Top(st.stack)), Pop(st.stack), ""))
  ELSE st

RECURSIVE PopOperators(_, _)
\* the while loop of the binary operator o1: operators on top of the stack
\* that go first are moved to the output
PopOperators(st, o1) ==
  IF st.stack # <<>> /\ Top(st.stack).type = "op" /\ PopsBefore(o1, Top(st.stack).value)
  THEN PopOperators(RpnState(Append(st.output, Top(st.stack)), Pop(st.stack), ""), o1)
  ELSE st

\* a name token handled with the names the evaluator does not know left out
RpnNameKnownOnly(st, t) ==
  CASE t.value = "pi" -> [st EXCEPT !.output = Append(@, NumTok(PiV))]
    [] t.value = "e"  -> [st EXCEPT !.output = Append(@, NumTok(EV))]
    [] t.value \in TrigNames \cup {"ln", "log", "sqrt"} ->
         [st EXCEPT !.stack = Append(@, t)]
    [] OTHER          -> st

\* a name token: a constant goes to the output as a number, any other name
\* is pushed as a function name
RpnName(st, t) ==
  CASE t.value = "pi" -> [st EXCEPT !.output = Append(@, NumTok(PiV))]
    [] t.value = "e"  -> [st EXCEPT !.output = Append(@, NumTok(EV))]
    [] OTHER          -> [st EXCEPT !.stack = Append(@, t)]

\* a comma that leaves the operators above the '(' where they are
RpnCommaNoPop(st) ==
  IF \E i \in DOMAIN st.stack : st.stack[i].type = "lparen" THEN st
  ELSE [st EXCEPT !.err = "Misplaced comma or parentheses"]

RpnComma(st) ==
  LET p == PopUntilLParen(st)
  IN  IF p.stack = <<>> THEN [p EXCEPT !.err = "Misplaced comma or parentheses"]
      ELSE p

RpnOp(st, t, prevToken) ==
  IF isUnary(t, prevToken)
  THEN [st EXCEPT !.stack = Append(@, UnaryMinusTok)]
  ELSE LET p == PopOperators(st, t.value)
       IN  [p EXCEPT !.stack = Append(@, t)]

RpnRParen(st) ==
  LET p == PopUntilLParen(st) IN
  IF p.stack = <<>> THEN [p EXCEPT !.err = "Mismatched parentheses"]
  ELSE LET q == [p EXCEPT !.stack = Pop(@)]
       IN  IF q.stack # <<>> /\ Top(q.stack).type \in {"name", "func"}
           THEN RpnState(Append(q.output, Top(q.stack)), Pop(q.stack), "")
           ELSE q

\* a postfix operator goes straight to the output
RpnPostfixToStack(st, t) == [st EXCEPT !.stack = Append(@, t)]

RpnPostfix(st, t) == [st EXCEPT !.output = Append(@, t)]

\* the body of the for loop of toRPN for the token t
RpnStep(st, t, prevToken) ==
  CASE t.type = "number"  -> [st EXCEPT !.output = Append(@, t)]
    [] t.type = "name"    -> RpnName(st, t)
    [] t.type = "comma"   -> RpnComma(st)
    [] t.type = "op"      -> RpnOp(st, t, prevToken)
    [] t.type = "lparen"  -> [st EXCEPT !.stack = Append(@, t)]
    [] t.type = "rparen"  -> RpnRParen(st)
    [] t.type = "postfix" -> RpnPostfix(st, t)
    [] OTHER              -> [st EXCEPT !.err = "Unknown token type: " \o t.type]

RECURSIVE RpnLoop(_, _, _)
RpnLoop(tokens, i, st) ==
  IF st.err # "" \/ i > Len(tokens) THEN st
  ELSE RpnLoop(tokens, i + 1,
               RpnStep(st, tokens[i], IF i = 1 THEN NullTok ELSE tokens[i - 1]))

RECURSIVE RpnDrainAll(_)
RpnDrainAll(st) ==
  IF st.stack = <<>> \/ st.err # "" THEN st
  ELSE RpnDrainAll(RpnState(Append(st.output, Top(st.stack)), Pop(st.stack), ""))

RECURSIVE RpnDrain(_)
\* the final loop: what is left on the stack goes to the output, and a
\* parenthesis left there is an error
RpnDrain(st) ==
  IF st.stack = <<>> \/ st.err # "" THEN st
  ELSE IF Top(st.stack).type \in {"lparen", "rparen"}
       THEN [st EXCEPT !.stack = Pop(@), !.err = "Mismatched parentheses"]
       ELSE RpnDrain(RpnState(Append(st.output, Top(st.stack)), Pop(st.stack), ""))

toRPN(tokens) ==
  LET st == RpnDrain(RpnLoop(tokens, 1, RpnState(<<>>, <<>>, "")))
  IN  IF st.err # "" THEN ErrT(st.err) ELSE OkT(st.output)

-----------------------------------------------------------------------------
(***************************************************************************)
(* RPN evaluator.  Its state is the numeric stack st, the status ("run"    *)
(* while the loop goes on, "error" once it threw, "unrep" once a decision  *)
(* depends on a value the model does not track) and the message thrown.    *)
(* steps records, for the properties, the value every operator, postfix    *)
(* and function step produced; the code keeps no such list.                *)
(***************************************************************************)
EvState(st, steps) == [st |-> st, status |-> "run", err |-> "", steps |-> steps]
EvThrow(s, msg)    == [s EXCEPT !.status = "error", !.err = msg]
EvUnknown(s)       == [s EXCEPT !.status = "unrep"]
\* st.push(v) of a step that produced v
EvPush(s, rest, v) == EvState(Append(rest, v), Append(s.steps, v))

\* the value a function of one argument other than the trig ones gives
MathFn(name, a) ==
  CASE name = "u-"   -> Negate(a)
    [] name = "ln"   -> LogV(a)
    [] name = "log"  -> LogV(a)
    [] name = "sqrt" -> SqrtV(a)

EvOp(s, t) ==
  IF Len(s.st) < 2 THEN EvThrow(s, "Invalid binary operation")
  ELSE LET b   == s.st[Len(s.st)]
           a   == s.st[Len(s.st) - 1]
           res == ApplyOp(t.value, a, b)
       IN  IF res.k = "unrep" THEN EvUnknown(s)
           ELSE IF ~IsFiniteV(res)
                THEN EvThrow([s EXCEPT !.steps = Append(@, res)], "Math error")
           ELSE EvPush(s, SubSeq(s.st, 1, Len(s.st) - 2), res)

EvPostfix(s, t) ==
  IF s.st = <<>> THEN EvThrow(s, "Invalid postfix operation")
  ELSE LET a    == Top(s.st)
           rest == Pop(s.st)
       IN  CASE t.value = "!" ->
                  LET f == factorial(a)
                  IN  CASE f.status = "ok"    -> EvPush(s, rest, f.v)
                        [] f.status = "error" -> EvThrow(s, f.err)
                        [] OTHER              -> EvUnknown(s)
             [] t.value = "%" -> EvPush(s, rest, Div(a, IntV(100)))
             [] OTHER -> EvThrow(s, "Unknown postfix: " \o t.value)

EvFunc(s, t, deg) ==
  LET name == t.value IN
  CASE name = "u-" ->
         IF s.st = <<>> THEN EvThrow(s, "Invalid unary")
         ELSE EvPush(s, Pop(s.st), MathFn(name, Top(s.st)))
    [] name \in TrigNames ->
         IF s.st = <<>> THEN EvThrow(s, "Invalid function arg")
         ELSE LET v == trigOp(name, Top(s.st), deg)
              IN  CASE v.status = "ok"    -> EvPush(s, Pop(s.st), v.v)
                    [] v.status = "error" -> EvThrow(s, v.err)
                    [] OTHER              -> EvUnknown(s)
    [] name \in {"ln", "log", "sqrt"} ->
         IF s.st = <<>> THEN EvThrow(s, "Invalid function arg")
         ELSE EvPush(s, Pop(s.st), MathFn(name, Top(s.st)))
    [] OTHER -> EvThrow(s, "Unknown function: " \o name)

\* the body of the for loop of evalRPN for the token t
EvStep(s, t, deg) ==
  CASE t.type = "number"          -> [s EXCEPT !.st = Append(@, t.num)]
    [] t.type = "op"              -> EvOp(s, t)
    [] t.type = "postfix"         -> EvPostfix(s, t)
    [] t.type \in {"name", "func"} -> EvFunc(s, t, deg)
    [] OTHER                      -> EvThrow(s, "Unhandled RPN token")

RECURSIVE EvLoop(_, _, _, _)
EvLoop(rpn, i, s, deg) ==
  IF s.status # "run" \/ i > Len(rpn) THEN s
  ELSE EvLoop(rpn, i + 1, EvStep(s, rpn[i], deg), deg)

\* evalRPN returning the top of the stack whatever is below it
EvFinalTop(s) ==
  IF s.status # "run" THEN s
  ELSE IF s.st = <<>> THEN EvThrow(s, "Invalid expression")
  ELSE IF Top(s.st).k = "unrep" THEN EvUnknown(s)
  ELSE IF ~IsFiniteV(Top(s.st)) THEN EvThrow(s, "Result not finite")
  ELSE [s EXCEPT !.status = "ok", !.st = <<Top(s.st)>>]

\* what evalRPN does after its loop
EvFinal(s) ==
  IF s.status # "run" THEN s
  ELSE IF Len(s.st) # 1 THEN EvThrow(s, "Invalid expression")
  ELSE IF s.st[1].k = "unrep" THEN EvUnknown(s)
  ELSE IF ~IsFiniteV(s.st[1]) THEN EvThrow(s, "Result not finite")
  ELSE [s EXCEPT !.status = "ok"]

\* the outcome of an evaluation: status "ok" with the number v returned,
\* "error" with the message thrown, or "unrep"
Outcome(status, v, err, steps) ==
  [status |-> status, v |-> v, err |-> err, steps |-> steps]

evalRPN(rpn, deg) ==
  LET s == EvFinal(EvLoop(rpn, 1, EvState(<<>>, <<>>), deg))
  IN  Outcome(s.status, IF s.status = "ok" THEN s.st[1] ELSE NaN, s.err, s.steps)

\* the replacements of internalEvaluateExpression
Normalize(str) ==
  LET kept == SelectSeq(str, LAMBDA c : ~isWhitespace(c))
  IN  [i \in DOMAIN kept |->
         CASE kept[i] = DivSign   -> "/"
           [] kept[i] = TimesSign -> "*"
           [] kept[i] = MinusSign -> "-"
           [] OTHER               -> kept[i]]

internalEvaluateExpression(str, deg) ==
  LET tokens == tokenize(Normalize(str)) IN
  IF tokens.status # "ok" THEN Outcome("error", NaN, tokens.err, <<>>)
  ELSE LET rpn == toRPN(tokens.toks) IN
       IF rpn.status # "ok" THEN Outcome("error", NaN, rpn.err, <<>>)
       ELSE evalRPN(rpn.toks, deg)

-----------------------------------------------------------------------------
(***************************************************************************)
(* The text of a result:                                                   *)
(*   (Number.isInteger(res) ? res : +res.toPrecision(12)).toString()       *)
(* for an exact value res.                                                 *)
(***************************************************************************)
\* the precision handed to toPrecision
Precision == 12

RECURSIVE IntDigits(_)
\* the decimal digits of n >= 0
IntDigits(n) ==
  IF n < 10 THEN <<DigitChar(n)>>
  ELSE Append(IntDigits(n \div 10), DigitChar(n % 10))

RECURSIVE FracDigits(_, _, _, _)
\* count more digits of the decimal expansion of r/d (0 <= r < d), after
\* the digits ds; the result keeps the remainder
FracDigits(ds, r, d, count) ==
  IF count = 0 THEN [ds |-> ds, r |-> r]
  ELSE FracDigits(Append(ds, DigitChar((r * 10) \div d)), (r * 10) % d, d, count - 1)

RECURSIVE LeadingZeros(_, _)
\* the number of zeros that follow the decimal point of r/d (0 < r < d)
LeadingZeros(r, d) == IF r * 10 >= d THEN 0 ELSE 1 + LeadingZeros(r * 10, d)

RECURSIVE IncDigits(_)
\* a digit string plus one in its last place
IncDigits(ds) ==
  IF ds = <<>> THEN <<"1">>
  ELSE IF ds[Len(ds)] = "9"
       THEN Append(IncDigits(SubSeq(ds, 1, Len(ds) - 1)), "0")
       ELSE [ds EXCEPT ![Len(ds)] = DigitChar(DigitVal(@) + 1)]

\* n/d > 0 rounded to Precision significant digits: the digits ds (trailing
\* zeros dropped) and the number pt of them before the decimal point
\* (pt <= 0: that many zeros follow the point before ds)
SigDigits(n, d) ==
  LET ip   == n \div d
      ipd  == IntDigits(ip)
      z    == IF ip > 0 THEN 0 ELSE LeadingZeros(n, d)
      pt0  == IF ip > 0 THEN Len(ipd) ELSE -z
      raw  == IF ip > 0
              THEN FracDigits(ipd, n % d, d, Precision - Len(ipd))
              ELSE LET skip == FracDigits(<<>>, n, d, z)
                   IN  FracDigits(<<>>, skip.r, d, Precision)
      up   == 2 * raw.r >= d
      inc  == IF up THEN IncDigits(raw.ds) ELSE raw.ds
      cut  == IF Len(inc) > Precision THEN SubSeq(inc, 1, Precision) ELSE inc
  IN  [ds |-> StripTrailingZeros(cut),
       pt |-> IF Len(inc) > Precision THEN pt0 + 1 ELSE pt0]

Zeros(k) == [i \in 1 .. k |-> "0"]

\* Number.prototype.toString of the positive decimal 0.ds * 10^pt
DecimalToString(ds, pt) ==
  LET k == Len(ds) IN
  CASE k <= pt /\ pt <= 21 -> ds \o Zeros(pt - k)
    [] 0 < pt /\ pt <= 21  -> SubSeq(ds, 1, pt) \o <<".">> \o SubSeq(ds, pt + 1, k)
    [] -6 < pt /\ pt <= 0  -> <<"0", ".">> \o Zeros(-pt) \o ds
    [] OTHER ->
         LET ex   == pt - 1
             sign == IF ex > 0 THEN "+" ELSE "-"
             mant == IF k = 1 THEN ds
                     ELSE <<ds[1], ".">> \o SubSeq(ds, 2, k)
         IN  mant \o <<"e", sign>> \o IntDigits(Abs(ex))

\* the display text of an exact result
NumToString(v) ==
  IF IsZero(v) THEN <<"0">>
  ELSE LET sd   == SigDigits(Abs(v.n), v.d)
           text == IF v.d = 1 THEN IntDigits(Abs(v.n))
                   ELSE DecimalToString(sd.ds, sd.pt)
       IN  IF v.n < 0 THEN <<"-">> \o text ELSE text

-----------------------------------------------------------------------------
(***************************************************************************)
(* State                                                                   *)
(***************************************************************************)
VARIABLES
  expr,         \* script.js: the expression being typed
  locked,       \* script.js: set after an error
  useDegrees,   \* script.js: the DEG/RAD flag
  history,      \* script.js: the history list, newest first
  stored,       \* localStorage["calc_history_v1"]
  display,      \* the text of #display
  keys,         \* the buttons of the page: [vals, fns]
  internalBound,\* window._internalEvaluate is a function
  aiExpr,       \* ai-nl.js: the expression handed to window.evaluateExpression
  aiResult,     \* ai-nl.js: what window.evaluateExpression returned
  input,        \* the text of one evaluation followed stage by stage
  pc,           \* its stage: "idle", "start", "tokenized", "parsed", "done", "failed"
  tokens,       \* what tokenize returned
  rpn,          \* what toRPN returned
  outcome,      \* what the evaluation returned or threw
  ev            \* evalRPN followed token by token: the index i and the state s

uiVars   == <<expr, locked, useDegrees, history, stored, display, keys>>
aiVars   == <<internalBound, aiExpr, aiResult>>
evalVars == <<input, pc, tokens, rpn, outcome, ev>>
vars     == <<uiVars, aiVars, evalVars>>

NoOutcome == Outcome("none", NaN, "", <<>>)
\* evalRPN is not running
NoRun == [i |-> 0, s |-> EvState(<<>>, <<>>)]

\* window._internalEvaluate after script.js has run: the shim at the end of
\* the file binds it only if an identifier internalEvaluateExpression is
\* visible at the top level, and the function of that name is local to the
\* arrow function the file wraps the calculator in
InternalVisibleAtTopLevel == FALSE
ShimBinds == InternalVisibleAtTopLevel

\* the state of the page after script.js and ai-nl.js have run, with the
\* buttons kb and nothing in localStorage
PageLoaded(kb) ==
  /\ expr = <<>>
  /\ locked = FALSE
  /\ useDegrees = TRUE
  /\ history = <<>>
  /\ stored = <<>>
  /\ display = <<"0">>
  /\ keys = kb
  /\ internalBound = ShimBinds
  /\ aiExpr = <<>>
  /\ aiResult = NoOutcome

NoKeys == [vals |-> {}, fns |-> {}]

EvalIdle ==
  /\ input = <<>>
  /\ pc = "idle"
  /\ tokens = <<>>
  /\ rpn = <<>>
  /\ outcome = NoOutcome
  /\ ev = NoRun

\* one evaluation of the text s, about to start
EvalStart(S) ==
  /\ input \in S
  /\ pc = "start"
  /\ tokens = <<>>
  /\ rpn = <<>>
  /\ outcome = NoOutcome
  /\ ev = NoRun

-----------------------------------------------------------------------------
(***************************************************************************)
(* One evaluation, stage by stage: internalEvaluateExpression              *)
(***************************************************************************)
Tokenize ==
  /\ pc = "start"
  /\ LET r == tokenize(Normalize(input)) IN
       /\ tokens' = r.toks
       /\ pc' = IF r.status = "ok" THEN "tokenized" ELSE "failed"
       /\ outcome' = IF r.status = "ok" THEN outcome
                     ELSE Outcome("error", NaN, r.err, <<>>)
  /\ UNCHANGED <<input, rpn, ev, uiVars, aiVars>>

\* toRPN with an output array that outlives the call
ToRPNSharedOutput ==
  /\ pc = "tokenized"
  /\ LET r == toRPN(tokens) IN
       /\ rpn' = rpn \o r.toks
       /\ pc' = IF r.status = "ok" THEN "parsed" ELSE "failed"
       /\ outcome' = IF r.status = "ok" THEN outcome
                     ELSE Outcome("error", NaN, r.err, <<>>)
  /\ UNCHANGED <<input, tokens, ev, uiVars, aiVars>>

ToRPN ==
  /\ pc = "tokenized"
  /\ LET r == toRPN(tokens) IN
       /\ rpn' = r.toks
       /\ pc' = IF r.status = "ok" THEN "parsed" ELSE "failed"
       /\ outcome' = IF r.status = "ok" THEN outcome
                     ELSE Outcome("error", NaN, r.err, <<>>)
  /\ UNCHANGED <<input, tokens, ev, uiVars, aiVars>>

EvalRPN ==
  /\ pc = "parsed"
  /\ outcome' = evalRPN(rpn, useDegrees)
  /\ pc' = IF outcome'.status = "error" THEN "failed" ELSE "done"
  /\ UNCHANGED <<input, tokens, rpn, ev, uiVars, aiVars>>

NextEval == Tokenize \/ ToRPN \/ EvalRPN

\* the evaluation has ended and the model decides its outcome
Decided == pc \in {"done", "failed"} /\ outcome.status \in {"ok", "error"}
Returned == pc = "done" /\ outcome.status = "ok"

-----------------------------------------------------------------------------
(***************************************************************************)
(* Arithmetic expressions: numbers, parentheses and the five binary        *)
(* operators                                                               *)
(***************************************************************************)
OperandChars == {DigitChar(n) : n \in 1 .. MaxNum}

RECURSIVE FlatExprs(_)
\* the expressions of k operands without parentheses
FlatExprs(k) ==
  IF k = 1 THEN {<<c>> : c \in OperandChars}
  ELSE {e \o <<o, c>> : e \in FlatExprs(k - 1), o \in BinarySymbols, c \in OperandChars}

\* (a o b) p c and a o (b p c)
GroupedExprs ==
  LET Two == {<<"(", a, o, b, ")">> : a \in OperandChars, b \in OperandChars,
                                       o \in BinarySymbols}
  IN  {g \o <<p, c>> : g \in Two, p \in BinarySymbols, c \in OperandChars}
      \cup {<<c, p>> \o g : g \in Two, p \in BinarySymbols, c \in OperandChars}

BinaryInputs == UNION {FlatExprs(k) : k \in 1 .. MaxOperands} \cup GroupedExprs

(***************************************************************************)
(* The reference evaluation of such an expression, by recursive descent:   *)
(*   sum  ::= prod { [+-] prod }       left to right                       *)
(*   prod ::= pow  { [x/] pow }        left to right (x: the symbol times) *)
(*   pow  ::= atom [ ^ pow ]           right to left                       *)
(*   atom ::= digit | "(" sum ")"                                          *)
(* A subexpression has the value its operator gives, and no value when an  *)
(* operand has none or the operator gives no finite number.                *)
(***************************************************************************)
RefVal(status, v, i) == [status |-> status, v |-> v, i |-> i]

RefApply(o, x, y, i) ==
  IF x.status = "error" \/ y.status = "error" THEN RefVal("error", NaN, i)
  ELSE IF x.status = "unrep" \/ y.status = "unrep" THEN RefVal("unrep", NaN, i)
  ELSE LET r == ApplyOp(o, x.v, y.v)
       IN  IF r.k = "unrep" THEN RefVal("unrep", NaN, i)
           ELSE IF ~IsFiniteV(r) THEN RefVal("error", NaN, i)
           ELSE RefVal("ok", r, i)

RECURSIVE RefSum(_, _), RefSumRest(_, _), RefProd(_, _), RefProdRest(_, _),
          RefPow(_, _), RefAtom(_, _)
RefAtom(s, i) ==
  IF s[i] = "(" THEN LET e == RefSum(s, i + 1) IN [e EXCEPT !.i = e.i + 1]
  ELSE RefVal("ok", IntV(DigitVal(s[i])), i + 1)

RefPow(s, i) ==
  LET base == RefAtom(s, i) IN
  IF CharAt(s, base.i) = "^"
  THEN LET ex == RefPow(s, base.i + 1) IN RefApply("^", base, ex, ex.i)
  ELSE base

RefProdRest(s, acc) ==
  IF CharAt(s, acc.i) \in {"*", "/"}
  THEN LET r == RefPow(s, acc.i + 1)
       IN  RefProdRest(s, RefApply(s[acc.i], acc, r, r.i))
  ELSE acc

RefProd(s, i) == RefProdRest(s, RefPow(s, i))

RefSumRest(s, acc) ==
  IF CharAt(s, acc.i) \in {"+", "-"}
  THEN LET r == RefProd(s, acc.i + 1)
       IN  RefSumRest(s, RefApply(s[acc.i], acc, r, r.i))
  ELSE acc

RefSum(s, i) == RefSumRest(s, RefProd(s, i))

Reference(s) == RefSum(s, 1)

InitBinary == PageLoaded(NoKeys) /\ EvalStart(BinaryInputs)
SpecBinary == InitBinary /\ [][NextEval]_vars

\* C2: for every well-formed expression of numbers, parentheses and the
\* binary operators + - * / ^, the evaluation returns the value of the
\* reference evaluation (precedences 2,2,3,3,4, ^ right-associative, the
\* others left-associative), and throws only where the reference has no
\* finite value
C2_ReferenceValue ==
  (pc \in {"done", "failed"} /\ outcome.status # "unrep") =>
     LET ref == Reference(input) IN
     /\ ref.i = Len(input) + 1
     /\ outcome.status = "ok" => (ref.status = "ok" /\ ref.v = outcome.v)
     /\ outcome.status = "error" =>
          (ref.status = "error" /\ pc = "failed" /\ outcome.err = "Math error")

\* an expression in which both associativities and two precedences decide
\* the value has been evaluated: 2-1-1 is 0 and not 2
C2_Witness ==
  /\ pc = "done"
  /\ input = <<"2", "-", "1", "-", "1">>
  /\ outcome.status = "ok"
  /\ outcome.v = Zero

-----------------------------------------------------------------------------
(***************************************************************************)
(* Unary minus                                                             *)
(***************************************************************************)
DigitChars == {DigitChar(n) : n \in 0 .. MaxNum}

\* a === b for two numbers: -0 and +0 are equal
NumEq(a, b) == a = b \/ (IsZero(a) /\ IsZero(b))

NegThenAdd  == {<<"-", a, "+", b>> : a \in DigitChars, b \in DigitChars}
MulByNeg    == {<<a, "*", "-", b>> : a \in DigitChars, b \in DigitChars}
SubParenNeg == {<<a, "-", "(", "-", b, ")">> : a \in DigitChars, b \in DigitChars}
UnaryInputs == NegThenAdd \cup MulByNeg \cup SubParenNeg

InitUnary == PageLoaded(NoKeys) /\ EvalStart(UnaryInputs)
SpecUnary == InitUnary /\ [][NextEval]_vars

\* C1: unary minus negates only the operand that follows it: "-a+b" is
\* (-a)+b, "a*-b" is a*(-b) and "a-(-b)" is a+b
C1_UnaryMinusOperandOnly ==
  pc \in {"done", "failed"} =>
    /\ pc = "done" /\ outcome.status = "ok"
    /\ input \in NegThenAdd =>
         NumEq(outcome.v, Add(Negate(IntV(DigitVal(input[2]))), IntV(DigitVal(input[4]))))
    /\ input \in MulByNeg =>
         NumEq(outcome.v, Mul(IntV(DigitVal(input[1])), Negate(IntV(DigitVal(input[4])))))
    /\ input \in SubParenNeg =>
         NumEq(outcome.v, Add(IntV(DigitVal(input[1])), IntV(DigitVal(input[5]))))

-----------------------------------------------------------------------------
(***************************************************************************)
(* The global evaluator and its caller in ai-nl.js                         *)
(***************************************************************************)
ErrorText == <<"E", "r", "r", "o", "r">>

\* a string returned where a number is expected
Returns(text) == Outcome("string", NaN, text, <<>>)

\* window.evaluateExpression(e): the call of window._internalEvaluate, on
\* any exception the call of internalEvaluateExpression by its name, and on
\* any exception of that the string "Error".  Where neither name refers to
\* the evaluator both calls throw; where one does, an expression on which
\* the evaluator throws makes both calls throw.
WindowEvaluateExpression(e, bound, deg) ==
  IF bound \/ InternalVisibleAtTopLevel
  THEN LET value == internalEvaluateExpression(e, deg)
       IN  IF value.status = "error" THEN Returns("Error") ELSE value
  ELSE Returns("Error")

\* the text String(result) that processInput writes to #display (for a
\* number of at most Precision significant digits)
ResultText(r) == IF r.status = "ok" /\ IsExact(r.v) THEN NumToString(r.v) ELSE ErrorText

\* processInput of ai-nl.js for a text that applyRules has turned into the
\* expression e
ProcessInput(e) ==
  LET r == WindowEvaluateExpression(e, internalBound, useDegrees) IN
  /\ r.status # "unrep"
  /\ aiExpr' = e
  /\ aiResult' = r
  /\ display' = ResultText(r)
  /\ UNCHANGED <<expr, locked, useDegrees, history, stored, keys, internalBound, evalVars>>

AiInputs == UnaryInputs \cup UNION {FlatExprs(k) : k \in 1..3}

InitBridge == PageLoaded(NoKeys) /\ EvalIdle
NextBridge == \E e \in AiInputs : ProcessInput(e)
SpecBridge == InitBridge /\ [][NextBridge]_vars

\* C3: window.evaluateExpression is bound to the internal evaluator: it
\* returns the number the internal pipeline evaluates the expression to
C3_GlobalIsInternal ==
  aiResult # NoOutcome =>
    LET r == internalEvaluateExpression(aiExpr, useDegrees)
    IN  r.status = "ok" => (aiResult.status = "ok" /\ aiResult.v = r.v)

-----------------------------------------------------------------------------
(***************************************************************************)
(* Calls of the named functions                                            *)
(***************************************************************************)
FnNames == {<<"l", "n">>, <<"l", "o", "g">>, <<"s", "q", "r", "t">>,
            <<"s", "i", "n">>, <<"c", "o", "s">>, <<"t", "a", "n">>,
            <<"c", "s", "c">>, <<"s", "e", "c">>, <<"c", "o", "t">>}

CallArgs == {<<c>> : c \in DigitChars} \cup {<<"-", "1">>}
Calls    == {f \o <<"(">> \o a \o <<")">> : f \in FnNames, a \in CallArgs}

\* f(a), -f(a), f(a)! and f(a)%, d o f(a), f(a) o d
CallInputs ==
  Calls
  \cup {<<"-">> \o c : c \in Calls}
  \cup {c \o <<p>> : c \in Calls, p \in {"!", "%"}}
  \cup {<<d, o>> \o c : c \in Calls, d \in DigitChars, o \in BinarySymbols}
  \cup {c \o <<o, d>> : c \in Calls, d \in DigitChars, o \in BinarySymbols}

InitCalls == PageLoaded(NoKeys) /\ EvalStart(CallInputs)
SpecCalls == InitCalls /\ [][NextEval]_vars

\* C4: the finite-result check follows every evaluator step, so that no
\* evaluation in which a binary operator, a postfix operator, unary minus or
\* a named function produced a non-finite value returns a number
C4_NoNonFiniteStepReturns ==
  Returned => \A i \in DOMAIN outcome.steps : ~NonFinite(outcome.steps[i])

-----------------------------------------------------------------------------
(***************************************************************************)
(* Inputs with two binary operators in a row                               *)
(***************************************************************************)
\* what stands before the pair: one operand, or two operands side by side
PairPrefixes ==
  {<<a>> : a \in OperandChars}
  \cup {<<a, "!", b>> : a \in OperandChars, b \in OperandChars}
  \cup {<<a, "(", b, ")">> : a \in OperandChars, b \in OperandChars}

OpPairInputs ==
  {pre \o <<o1, o2, c>> :
     pre \in PairPrefixes, o1 \in BinarySymbols, o2 \in BinarySymbols,
     c \in OperandChars}

HasOperatorPair(s) ==
  \E i \in 1..(Len(s) - 1) :
     s[i] \in BinarySymbols /\ s[i + 1] \in BinarySymbols \ {"-"}

InitOpPairs == PageLoaded(NoKeys) /\ EvalStart(OpPairInputs)
SpecOpPairs == InitOpPairs /\ [][NextEval]_vars

\* C5: an input in which a binary operator is directly followed by a binary
\* operator other than a unary minus never evaluates to a number
C5_OperatorPairRejected ==
  (Returned /\ HasOperatorPair(input)) => outcome.status # "ok"

-----------------------------------------------------------------------------
(***************************************************************************)
(* The calculator's event handlers                                         *)
(***************************************************************************)
MaxExpr == 3    \* keys are accepted while expr is shorter than this
MaxHist == 1    \* see Follows

HistoryCap == 200

\* render(): what #display shows for expr
Render(e) == IF e = <<>> THEN <<"0">> ELSE e

\* expr.slice(0, -1)
DropLast(e) == IF e = <<>> THEN <<>> ELSE SubSeq(e, 1, Len(e) - 1)

\* '+-*/^'.includes(c), where c is a character or the empty string
InOps(c) == c = "" \/ c \in BinarySymbols
LastChar(e) == IF e = <<>> THEN "" ELSE e[Len(e)]

\* history.slice(0, 200) of the mutant that keeps every record
SliceNothing(h, n) == h

\* history.slice(0, 200)
Slice(h, n) == SubSeq(h, 1, IF Len(h) < n THEN Len(h) ELSE n)

\* the logs to which the model adds a record: those of fewer than MaxHist
\* records and those within MaxHist records of the cap
Follows(h) == Len(h) < MaxHist \/ Len(h) + MaxHist >= HistoryCap

\* a result whose text the model computes
HasText(r) == r.status = "ok" => r.v.k \in {"rat", "nzero"}

Clear ==
  /\ expr' = <<>>
  /\ locked' = FALSE
  /\ display' = Render(expr')
  /\ UNCHANGED <<useDegrees, history, stored, keys, aiVars, evalVars>>

Back ==
  /\ ~locked
  /\ expr' = DropLast(expr)
  /\ display' = Render(expr')
  /\ UNCHANGED <<locked, useDegrees, history, stored, keys, aiVars, evalVars>>

\* 'equals' with a catch block that also empties expr
EqualsClearing ==
  /\ ~locked
  /\ expr # <<>>
  /\ LET res == internalEvaluateExpression(expr, useDegrees) IN
       /\ res.status # "unrep"
       /\ HasText(res)
       /\ IF res.status = "ok"
          THEN LET text == NumToString(res.v) IN
               /\ Follows(history)
               /\ history' = Slice(<<[expr |-> expr, result |-> text]>> \o history,
                                   HistoryCap)
               /\ stored' = history'
               /\ expr' = text
               /\ locked' = FALSE
               /\ display' = Render(expr')
          ELSE /\ display' = ErrorText
               /\ locked' = TRUE
               /\ expr' = <<>>
               /\ UNCHANGED <<history, stored>>
  /\ UNCHANGED <<useDegrees, keys, aiVars, evalVars>>

Equals ==
  /\ ~locked
  /\ expr # <<>>
  /\ LET res == internalEvaluateExpression(expr, useDegrees) IN
       /\ res.status # "unrep"
       /\ HasText(res)
       /\ IF res.status = "ok"
          THEN LET text == NumToString(res.v) IN
               /\ Follows(history)
               /\ history' = Slice(<<[expr |-> expr, result |-> text]>> \o history,
                                   HistoryCap)
               /\ stored' = history'
               /\ expr' = text
               /\ locked' = FALSE
               /\ display' = Render(expr')
          ELSE /\ display' = ErrorText
               /\ locked' = TRUE
               /\ UNCHANGED <<expr, history, stored>>
  /\ UNCHANGED <<useDegrees, keys, aiVars, evalVars>>

InputFn(fnName) ==
  /\ ~locked
  /\ fnName \in keys.fns
  /\ Len(expr) + Len(fnName) <= MaxExpr
  /\ expr' = expr \o fnName
  /\ display' = Render(expr')
  /\ UNCHANGED <<locked, useDegrees, history, stored, keys, aiVars, evalVars>>

InputVal(val) ==
  /\ ~locked
  /\ val \in keys.vals
  /\ Len(expr) < MaxExpr
  /\ expr' = IF InOps(LastChar(expr)) /\ InOps(val)
             THEN DropLast(expr) \o <<val>>
             ELSE expr \o <<val>>
  /\ display' = Render(expr')
  /\ UNCHANGED <<locked, useDegrees, history, stored, keys, aiVars, evalVars>>

\* the click handler of the i-th entry of the history list
HistoryClick(i) ==
  /\ i \in DOMAIN history
  /\ expr' = history[i].result
  /\ display' = Render(expr')
  /\ UNCHANGED <<locked, useDegrees, history, stored, keys, aiVars, evalVars>>

ClearHistory ==
  /\ history' = <<>>
  /\ stored' = <<>>
  /\ UNCHANGED <<expr, locked, useDegrees, display, keys, aiVars, evalVars>>

DegToggle ==
  /\ useDegrees' = ~useDegrees
  /\ UNCHANGED <<expr, locked, history, stored, display, keys, aiVars, evalVars>>

\* the pages the events are followed on, by their keys
Keyboards ==
  { [vals |-> {"3", "*", "-"}, fns |-> {}],
    [vals |-> {"2", "+"},      fns |-> {<<"l", "n", "(">>}] }

AllVals == UNION {kb.vals : kb \in Keyboards}
AllFns  == UNION {kb.fns : kb \in Keyboards}

InitUI == (\E kb \in Keyboards : PageLoaded(kb)) /\ EvalIdle

NextUI ==
  \/ Clear
  \/ Back
  \/ Equals
  \/ \E fnName \in AllFns : InputFn(fnName)
  \/ \E val \in AllVals : InputVal(val)
  \/ \E i \in 1..MaxHist : HistoryClick(i)
  \/ ClearHistory
  \/ DegToggle

SpecUI == InitUI /\ [][NextUI]_vars

\* C6: while the calculator is locked, the only event that changes expr is
\* 'clear', which empties it and unlocks
C6_LockedUntilClear ==
  [][locked => (expr' = expr \/ (expr' = <<>> /\ ~locked'))]_vars

\* C9: a '-' typed right after a binary operator is kept, so that expr then
\* ends with that operator followed by '-'
C9_MinusAfterOperatorKept ==
  [][(InputVal("-") /\ expr # <<>> /\ LastChar(expr) \in BinarySymbols)
       => expr' = Append(expr, "-")]_vars

-----------------------------------------------------------------------------
(***************************************************************************)
(* 'equals' on a typed expression, and the text it leaves in expr          *)
(***************************************************************************)
MaxPercents == 4

\* the keys of the global keydown handler
KeydownKeys ==
  [vals |-> Range(DigitSeq) \cup {"."} \cup BinarySymbols \cup {"%", "(", ")"},
   fns  |-> {<<"s", "i", "n", "(">>, <<"c", "o", "s", "(">>,
             <<"t", "a", "n", "(">>, <<"l", "n", "(">>,
             <<"l", "o", "g", "(">>}]

\* the page with the text e typed and nothing evaluated yet
Typed(kb, e) ==
  /\ expr = e
  /\ locked = FALSE
  /\ useDegrees = TRUE
  /\ history = <<>>
  /\ stored = <<>>
  /\ display = Render(e)
  /\ keys = kb
  /\ internalBound = ShimBinds
  /\ aiExpr = <<>>
  /\ aiResult = NoOutcome

PercentInputs ==
  {<<a>> \o [i \in 1..k |-> "%"] : a \in OperandChars, k \in 0..MaxPercents}

RepeatInputs == BinaryInputs \cup PercentInputs

InitRepeat == (\E e \in RepeatInputs : Typed(KeydownKeys, e)) /\ EvalIdle
SpecRepeat == InitRepeat /\ [][Equals]_vars

\* C8: the text that a successful 'equals' leaves in expr evaluates again,
\* to a number with that same text
C8_ResultTextReevaluates ==
  [][(Equals /\ ~locked')
       => LET again == internalEvaluateExpression(expr', useDegrees) IN
          again.status # "unrep"
            => (again.status = "ok" /\ HasText(again)
                /\ NumToString(again.v) = expr')]_vars

-----------------------------------------------------------------------------
(***************************************************************************)
(* Postfix operators next to a binary operator                             *)
(***************************************************************************)
PostfixSymbols == {"!", "%"}

OperandThenPostfix ==
  {<<a, o, b, p>> : a \in DigitChars, b \in DigitChars, o \in BinarySymbols,
                    p \in PostfixSymbols}
ParenThenPostfix ==
  {<<"(", a, o, b, ")", p>> : a \in DigitChars, b \in DigitChars,
                              o \in BinarySymbols, p \in PostfixSymbols}
PostfixThenOperator ==
  {<<a, p, o, b>> : a \in DigitChars, b \in DigitChars, o \in BinarySymbols,
                    p \in PostfixSymbols}
PostfixInputs == OperandThenPostfix \cup ParenThenPostfix \cup PostfixThenOperator

\* the values the postfix operators stand for: n! as a product, x% as x/100
MaxRefFactorial == 10
RECURSIVE RefFactorial(_)
RefFactorial(n) == IF n <= 1 THEN 1 ELSE n * RefFactorial(n - 1)

RefPostfix(p, x) ==
  IF x.status # "ok" THEN x
  ELSE IF x.v.k # "rat" THEN Unknown
  ELSE IF p = "%" THEN Ok(Div(x.v, IntV(100)))
  ELSE IF x.v.d # 1 \/ x.v.n < 0 THEN Err("factorial")
  ELSE IF x.v.n > MaxRefFactorial THEN Unknown
  ELSE Ok(IntV(RefFactorial(x.v.n)))

RefBinary(o, x, y) ==
  IF x.status = "error" \/ y.status = "error" THEN Err("operand")
  ELSE IF x.status = "unrep" \/ y.status = "unrep" THEN Unknown
  ELSE LET r == ApplyOp(o, x.v, y.v)
       IN  IF r.k = "unrep" THEN Unknown
           ELSE IF ~IsFiniteV(r) THEN Err("not finite")
           ELSE Ok(r)

RefDigit(c) == Ok(IntV(DigitVal(c)))

PostfixMeaning(s) ==
  CASE s \in OperandThenPostfix ->
         RefBinary(s[2], RefDigit(s[1]), RefPostfix(s[4], RefDigit(s[3])))
    [] s \in ParenThenPostfix ->
         RefPostfix(s[6], RefBinary(s[3], RefDigit(s[2]), RefDigit(s[4])))
    [] s \in PostfixThenOperator ->
         RefBinary(s[3], RefPostfix(s[2], RefDigit(s[1])), RefDigit(s[4]))

InitPostfix == PageLoaded(NoKeys) /\ EvalStart(PostfixInputs)
SpecPostfix == InitPostfix /\ [][NextEval]_vars

\* C7: a postfix operator applies to the operand right before it and binds
\* tighter than every binary operator: "a o b!" is a o (b!), "a o b%" is
\* a o (b/100), "a! o b" is (a!) o b, and after a closing parenthesis the
\* postfix operator applies to the value of the parentheses
C7_PostfixBindsTighter ==
  (pc \in {"done", "failed"} /\ input \in PostfixInputs) =>
     LET m == PostfixMeaning(input) IN
     (m.status # "unrep" /\ outcome.status # "unrep") =>
        /\ outcome.status = m.status
        /\ m.status = "ok" => NumEq(outcome.v, m.v)

C7_Witness ==
  /\ pc = "done"
  /\ input = <<"1", "+", "2", "!">>
  /\ outcome.status = "ok"
  /\ outcome.v = IntV(3)

-----------------------------------------------------------------------------
(***************************************************************************)
(* Parentheses and commas                                                  *)
(***************************************************************************)
MaxLen == 4

ParenChars == {"1", "+", "(", ")", ","}

RECURSIVE Strings(_, _)
\* the texts of n characters of the set cs
Strings(cs, n) ==
  IF n = 0 THEN {<<>>}
  ELSE {Append(t, c) : t \in Strings(cs, n - 1), c \in cs}

ParenInputs == UNION {Strings(ParenChars, n) : n \in 1..MaxLen}

\* the number of '(' less the number of ')' among the first i characters
Depth(s, i) ==
  Cardinality({j \in 1..i : s[j] = "("}) - Cardinality({j \in 1..i : s[j] = ")"})

Balanced(s) ==
  /\ \A i \in 1..Len(s) : Depth(s, i) >= 0
  /\ Depth(s, Len(s)) = 0

\* the first ')' that closes nothing, Len(s) + 1 if there is none
FirstUnmatched(s) ==
  IF \E i \in 1..Len(s) : Depth(s, i) < 0
  THEN CHOOSE i \in 1..Len(s) :
         Depth(s, i) < 0 /\ \A j \in 1..(i - 1) : Depth(s, j) >= 0
  ELSE Len(s) + 1

\* a comma outside every open parenthesis comes before that
CommaOutsideFirst(s) ==
  \E j \in 1..(FirstUnmatched(s) - 1) : s[j] = "," /\ Depth(s, j) = 0

ParenTypes == {"lparen", "rparen"}
MismatchedParentheses == "Mismatched parentheses"
MisplacedComma == "Misplaced comma or parentheses"

InitParens == PageLoaded(NoKeys) /\ EvalStart(ParenInputs)
SpecParens == InitParens /\ [][NextEval]_vars

AfterToRPN == pc \in {"parsed", "done", "failed"}

\* C10 as stated: toRPN fails with the mismatched-parentheses error for every
\* text whose parentheses are not balanced, returns no RPN sequence for it,
\* and no RPN sequence it returns holds a parenthesis
C10_UnbalancedIsMismatched ==
  AfterToRPN =>
    /\ ~Balanced(input) =>
          /\ pc = "failed" /\ rpn = <<>>
          /\ outcome.status = "error" /\ outcome.err = MismatchedParentheses
    /\ \A i \in DOMAIN rpn : rpn[i].type \notin ParenTypes

\* C10 amended: toRPN fails for every text whose parentheses are not
\* balanced and returns no RPN sequence for it; the error is the
\* mismatched-parentheses one unless a comma outside every open parenthesis
\* comes before the first unmatched ')' (before the end, if there is none),
\* and then it is the misplaced-comma one; no RPN sequence it returns holds
\* a parenthesis
C10_UnbalancedFails ==
  AfterToRPN =>
    /\ ~Balanced(input) =>
          /\ pc = "failed" /\ rpn = <<>>
          /\ outcome.status = "error"
          /\ outcome.err = IF CommaOutsideFirst(input) THEN MisplacedComma
                           ELSE MismatchedParentheses
    /\ \A i \in DOMAIN rpn : rpn[i].type \notin ParenTypes

C10_Witness ==
  /\ pc = "failed"
  /\ input = <<"1", ",", "1", ")">>
  /\ ~Balanced(input)
  /\ outcome.err = MisplacedComma

-----------------------------------------------------------------------------
(***************************************************************************)
(* The history log near its cap                                            *)
(***************************************************************************)
\* the log that localStorage holds after the evaluations of "1", "2", ...,
\* "n" in this order, newest first
StoredLog(n) ==
  [i \in 1..n |-> [expr |-> IntDigits(n + 1 - i), result |-> IntDigits(n + 1 - i)]]

\* the page loaded with the log h in localStorage, and the text e typed
LoadedLog(kb, e, h) ==
  /\ expr = e
  /\ locked = FALSE
  /\ useDegrees = TRUE
  /\ history = h
  /\ stored = h
  /\ display = Render(e)
  /\ keys = kb
  /\ internalBound = ShimBinds
  /\ aiExpr = <<>>
  /\ aiResult = NoOutcome

LogInputs == FlatExprs(1)

InitLog ==
  /\ \E e \in LogInputs : \E n \in (HistoryCap - MaxHist)..HistoryCap :
        LoadedLog(KeydownKeys, e, StoredLog(n))
  /\ EvalIdle

NextLog ==
  \/ Equals
  \/ HistoryClick(1)
  \/ ClearHistory

SpecLog == InitLog /\ [][NextLog]_vars

Min(a, b) == IF a < b THEN a ELSE b

\* C11: history never holds more than 200 records; a successful 'equals'
\* puts the new record first, the older ones follow it in their previous
\* order, and the oldest is dropped when the log was full
C11_HistoryLog ==
  /\ [](Len(history) <= HistoryCap)
  /\ [][(Equals /\ ~locked') =>
          /\ Len(history') = Min(Len(history) + 1, HistoryCap)
          /\ history'[1] = [expr |-> expr, result |-> expr']
          /\ \A i \in 2..Len(history') : history'[i] = history[i - 1]]_vars

C11_Witness ==
  /\ Len(history) = HistoryCap
  /\ history[1].expr = <<"2">>
  /\ history[2].expr = IntDigits(HistoryCap)
  /\ history[HistoryCap].expr = <<"2">>
  /\ ~locked

-----------------------------------------------------------------------------
(***************************************************************************)
(* The evaluator's stack                                                   *)
(***************************************************************************)
StackItems == {<<"1">>, <<"+">>, <<"-">>, <<"%">>, <<"(">>, <<")">>,
               <<"l", "n", "(">>}

RECURSIVE ItemStrings(_, _)
\* the texts made of n items
ItemStrings(items, n) ==
  IF n = 0 THEN {<<>>}
  ELSE {t \o it : t \in ItemStrings(items, n - 1), it \in items}

StackInputs == UNION {ItemStrings(StackItems, n) : n \in 0..MaxLen}

InitStack == PageLoaded(NoKeys) /\ EvalStart(StackInputs)
SpecStack == InitStack /\ [][NextEval]_vars

\* how many values the token t takes from the stack and how many it puts
Takes(t) == CASE t.type = "number" -> 0 [] t.type = "op" -> 2 [] OTHER -> 1
Puts(t)  == 1

RECURSIVE StackDepth(_, _, _)
\* the number of values on the stack after the tokens from i on, starting
\* with d values; -1 if a token finds fewer values than it takes
StackDepth(r, i, d) ==
  IF i > Len(r) THEN d
  ELSE IF d < Takes(r[i]) THEN -1
  ELSE StackDepth(r, i + 1, d - Takes(r[i]) + Puts(r[i]))

UnderflowErrors == {"Invalid binary operation", "Invalid postfix operation",
                    "Invalid unary", "Invalid function arg"}

\* evalRPN has been called on rpn and the model decides its outcome
EvalRPNDecided ==
  /\ pc \in {"done", "failed"}
  /\ tokenize(Normalize(input)).status = "ok"
  /\ toRPN(tokens).status = "ok"
  /\ outcome.status \in {"ok", "error"}

\* C12: evalRPN returns a value only if exactly one value, a finite one, is
\* left after the last token; with no value or several values left it
\* throws 'Invalid expression', and a token that finds too few values makes
\* it throw (in both cases unless an operator has thrown 'Math error'
\* before)
C12_OneFiniteValue ==
  EvalRPNDecided =>
    LET d == StackDepth(rpn, 1, 0) IN
    /\ outcome.status = "ok" => (d = 1 /\ IsFiniteV(outcome.v))
    /\ (d = 0 \/ d > 1) =>
          (outcome.status = "error"
           /\ outcome.err \in {"Invalid expression", "Math error"})
    /\ d = -1 =>
          (outcome.status = "error"
           /\ outcome.err \in UnderflowErrors \cup {"Math error"})

C12_Witness ==
  /\ EvalRPNDecided
  /\ input = <<"1", "(", "1", ")">>
  /\ Len(rpn) = 2
  /\ pc = "failed"
  /\ outcome.err = "Invalid expression"

-----------------------------------------------------------------------------
(***************************************************************************)
(* Evaluations one after the other                                         *)
(***************************************************************************)
\* an event handler that could run at any moment
Anytime == TRUE

\* no evaluation is in progress
Idle == pc \in {"idle", "done", "failed"}

\* a call of internalEvaluateExpression(e); tokens and rpn are what the
\* calls of tokenize and toRPN before it returned
Call(e) ==
  /\ Idle
  /\ input' = e
  /\ pc' = "start"
  /\ outcome' = NoOutcome
  /\ UNCHANGED <<tokens, rpn, ev, uiVars, aiVars>>

SessionInputs ==
  FlatExprs(1)
  \cup {<<"+">>, <<"(">>, <<"1", "!", "1">>}
  \cup {f \o <<"(", a, ")">> : f \in {<<"s", "i", "n">>, <<"l", "n">>},
                                 a \in OperandChars}

InitSession == PageLoaded(NoKeys) /\ EvalIdle

\* an event handler runs only while no evaluation is in progress
NextSession ==
  \/ \E e \in SessionInputs : Call(e)
  \/ Tokenize
  \/ ToRPN
  \/ EvalRPN
  \/ Idle /\ DegToggle

SpecSession == InitSession /\ [][NextSession]_vars

\* C13: an evaluation ends with the outcome that its text and the flag
\* determine, whatever was evaluated or toggled before, and no step of it
\* changes expr, locked, history or the flag
C13_Deterministic ==
  [][/\ (~Idle /\ Idle') => outcome' = internalEvaluateExpression(input, useDegrees)
     /\ ~Idle => UNCHANGED <<expr, locked, history, useDegrees>>]_vars

C13_Witness ==
  /\ pc = "tokenized"
  /\ input = <<"2">>
  /\ rpn = toRPN(tokenize(<<"s", "i", "n", "(", "1", ")">>).toks).toks
  /\ ~useDegrees

-----------------------------------------------------------------------------
(***************************************************************************)
(* Factorial operands                                                      *)
(***************************************************************************)
\* integer operands 0 .. MaxArg are written out in full
MaxArg == 12

Operand(text, v) == [text |-> text, v |-> v]

\* operand texts with the value each one denotes
FactOperands ==
  {Operand(IntDigits(n), IntV(n)) : n \in 0 .. MaxArg}
  \cup {Operand(IntDigits(n), IntV(n)) :
          n \in (FactorialMax - 1) .. (FactorialMax + 2)}
  \cup {Operand(<<DigitChar(n), ".", "0">>, IntV(n)) : n \in 0 .. MaxNum}
  \cup {Operand(<<DigitChar(n), ".", "5">>, V("rat", 2 * n + 1, 2)) :
          n \in 0 .. MaxNum}
  \cup {Operand(<<".", "5">>, V("rat", 1, 2)),
        Operand(<<"(", "-", "0", ")">>, NegZero),
        Operand(<<"(", "-", "1", ")">>, IntV(-1)),
        Operand(<<"(", "0", "-", "2", ")">>, IntV(-2)),
        Operand(<<"(", "-", "1", ".", "5", ")">>, V("rat", -3, 2)),
        Operand(<<"l", "n", "(", "0", ")">>, NegInf),
        Operand(<<"(", "-", "l", "n", "(", "0", ")", ")">>, PosInf),
        Operand(<<"s", "q", "r", "t", "(", "-", "1", ")">>, NaN),
        Operand(<<"3", "!">>, IntV(6))}

FactInputs == {o.text \o <<"!">> : o \in FactOperands}
FactOperand(s) == CHOOSE o \in FactOperands : o.text \o <<"!">> = s

\* finite, not negative, an integer, at most 170
Accepted(v) ==
  \/ v.k = "nzero"
  \/ v.k = "rat" /\ v.d = 1 /\ v.n >= 0 /\ v.n <= FactorialMax

FactorialErrors ==
  {"Invalid factorial", "Factorial requires integer", "Result too large"}

InitFact == PageLoaded(NoKeys) /\ EvalStart(FactInputs)
SpecFact == InitFact /\ [][NextEval]_vars

\* C14: "a!" returns the product 2*3*...*a (1 for a = 0 and a = 1) when a
\* is finite, not negative, an integer and at most 170, and fails with an
\* error of factorial for every other operand
C14_FactorialDomain ==
  (pc \in {"done", "failed"} /\ input \in FactInputs) =>
     LET a == FactOperand(input).v IN
     IF Accepted(a)
     THEN /\ outcome.status = "ok"
          /\ IsFiniteV(outcome.v)
          /\ a.n <= MaxRefFactorial => outcome.v = IntV(RefFactorial(a.n))
     ELSE /\ outcome.status = "error"
          /\ outcome.err \in FactorialErrors

C14_Witness ==
  /\ pc = "failed"
  /\ input = IntDigits(FactorialMax + 1) \o <<"!">>
  /\ outcome.err = "Result too large"

-----------------------------------------------------------------------------
(***************************************************************************)
(* Names the evaluator does not know                                       *)
(***************************************************************************)
\* the names toRPN and evalRPN compare a name token with
KnownNames == {"pi", "e"} \cup TrigNames \cup {"ln", "log", "sqrt"}

\* items of the generated texts; "foo" next to "pi" or "1" makes the names
\* "foopi", "pifoo", "foo1", "pi1"
NameItems ==
  {<<"1">>, <<"+">>, <<"(">>, <<")">>, <<",">>, <<"!">>,
   <<"f", "o", "o">>, <<"p", "i">>}

NameInputs == UNION {ItemStrings(NameItems, n) : n \in 1 .. MaxLen}

IsUnknownName(t) == t.type = "name" /\ t.value \notin KnownNames
HasUnknownName(toks) == \E i \in DOMAIN toks : IsUnknownName(toks[i])
UnknownNames(toks) == {toks[i].value : i \in {j \in DOMAIN toks : IsUnknownName(toks[j])}}
Occurrences(toks, t) == Cardinality({i \in DOMAIN toks : toks[i] = t})

\* the tokens with sqrt in the place of every name that is not known
AsSqrt(toks) ==
  [i \in DOMAIN toks |->
     IF IsUnknownName(toks[i]) THEN Tok("name", "sqrt") ELSE toks[i]]

\* the expression evaluates to a number once its unknown names are replaced
\* by a function
WellFormedOtherwise(toks, deg) ==
  LET r == toRPN(AsSqrt(toks))
  IN  r.status = "ok" /\ evalRPN(r.toks, deg).status = "ok"

InitNames == PageLoaded(NoKeys) /\ EvalStart(NameInputs)
SpecNames == InitNames /\ [][NextEval]_vars

\* C15: an input with a name token other than pi, e and the nine functions
\* never returns a number; toRPN hands every such token on to the evaluator;
\* and when the input would evaluate with a function in the place of the
\* name, the error is "Unknown function: " followed by the name
C15_UnknownNameFails ==
  (pc \in {"parsed", "done", "failed"} /\ HasUnknownName(tokens)) =>
     /\ pc \in {"done", "failed"} => outcome.status # "ok"
     /\ pc = "parsed" =>
          \A i \in DOMAIN tokens :
             IsUnknownName(tokens[i]) =>
                Occurrences(rpn, tokens[i]) = Occurrences(tokens, tokens[i])
     /\ (pc = "failed" /\ WellFormedOtherwise(tokens, useDegrees)) =>
          /\ outcome.status = "error"
          /\ \E n \in UnknownNames(tokens) :
                outcome.err = "Unknown function: " \o n

C15_Witness ==
  /\ pc = "failed"
  /\ input = <<"f", "o", "o", "(", "1", ")">>
  /\ rpn = <<NumTok(One), Tok("name", "foo")>>
  /\ outcome.err = "Unknown function: foo"

-----------------------------------------------------------------------------
(***************************************************************************)
(* evalRPN token by token.  trigOp reads the flag useDegrees when it is    *)
(* called, so every step takes the flag as it is at that step.             *)
(***************************************************************************)
\* evalRPN is entered: const st = []
EvalBegin ==
  /\ pc = "parsed"
  /\ pc' = "running"
  /\ ev' = [i |-> 1, s |-> EvState(<<>>, <<>>)]
  /\ UNCHANGED <<input, tokens, rpn, outcome, uiVars, aiVars>>

\* one turn of the for loop
EvalToken ==
  /\ pc = "running"
  /\ ev.s.status = "run"
  /\ ev.i <= Len(rpn)
  /\ ev' = [i |-> ev.i + 1, s |-> EvStep(ev.s, rpn[ev.i], useDegrees)]
  /\ UNCHANGED <<input, pc, tokens, rpn, outcome, uiVars, aiVars>>

\* the loop has ended or a step threw
EvalEnd ==
  /\ pc = "running"
  /\ ev.s.status # "run" \/ ev.i > Len(rpn)
  /\ LET s == EvFinal(ev.s) IN
       /\ outcome' = Outcome(s.status, IF s.status = "ok" THEN s.st[1] ELSE NaN,
                             s.err, s.steps)
       /\ pc' = IF s.status = "error" THEN "failed" ELSE "done"
  /\ UNCHANGED <<input, tokens, rpn, ev, uiVars, aiVars>>

TrigCall(f, a) == f \o <<"(", a, ")">>

TrigInputs ==
  {TrigCall(f, a) : f \in {<<"s", "i", "n">>, <<"c", "o", "t">>}, a \in DigitChars}
  \cup {TrigCall(f, a) : f \in {<<"l", "n">>, <<"s", "q", "r", "t">>},
                          a \in OperandChars}
  \cup {TrigCall(<<"s", "i", "n">>, a) \o <<"*">> \o TrigCall(<<"c", "o", "s">>, b) :
          a \in OperandChars, b \in OperandChars}
  \cup {TrigCall(<<"l", "o", "g">>, a) \o <<"+">> \o TrigCall(<<"t", "a", "n">>, b) :
          a \in OperandChars, b \in OperandChars}
  \cup {<<a, o, b>> : a \in OperandChars, b \in OperandChars, o \in {"/", "^"}}

InitTrig == PageLoaded(NoKeys) /\ EvalIdle

\* the click handler of the DEG/RAD button runs when no evaluation is on
\* the call stack
NextTrig ==
  \/ \E e \in TrigInputs : Call(e)
  \/ Tokenize
  \/ ToRPN
  \/ EvalBegin
  \/ EvalToken
  \/ EvalEnd
  \/ Idle /\ DegToggle

SpecTrig == InitTrig /\ [][NextTrig]_vars

TrigKinds(mode) == {n \o "." \o mode : n \in TrigNames}
Mode(deg) == IF deg THEN "deg" ELSE "rad"
InEvaluation == pc \in {"start", "tokenized", "parsed", "running"}

\* C16: within one evaluation every trig call scales its argument by pi/180
\* exactly when the flag is on degrees, the flag does not change between two
\* steps of the evaluation, and a step that is not a trig call gives the
\* same result under both values of the flag
C16_FlagUniform ==
  /\ [](pc = "running" =>
          /\ \A k \in DOMAIN ev.s.steps :
                ev.s.steps[k].k \notin TrigKinds(Mode(~useDegrees))
          /\ ev.s = EvLoop(SubSeq(rpn, 1, ev.i - 1), 1, EvState(<<>>, <<>>),
                           useDegrees))
  /\ [][InEvaluation => useDegrees' = useDegrees]_vars
  /\ [][(EvalToken /\ rpn[ev.i].value \notin TrigNames) =>
          ev'.s = EvStep(ev.s, rpn[ev.i], ~useDegrees)]_vars

C16_Witness ==
  /\ pc = "running"
  /\ ~useDegrees
  /\ input = TrigCall(<<"s", "i", "n">>, "1") \o <<"*">> \o TrigCall(<<"c", "o", "s">>, "2")
  /\ ev.i = 5
  /\ ev.s.steps = <<V("sin.rad", 1, 1), V("cos.rad", 2, 1)>>

-----------------------------------------------------------------------------
(***************************************************************************)
(* Commas                                                                  *)
(***************************************************************************)
\* what stands on either side of a comma
CommaSides == FlatExprs(1) \cup FlatExprs(2)

Parenthesised(a, b) == <<"(">> \o a \o <<",">> \o b \o <<")">>
LnCall(a, b) == <<"l", "n">> \o Parenthesised(a, b)

CommaInside == {Parenthesised(a, b) : a \in CommaSides, b \in CommaSides}
CommaInCall == {LnCall(a, b) : a \in CommaSides, b \in CommaSides}
CommaOutside ==
  {a \o <<",">> \o b : a \in CommaSides, b \in CommaSides}
  \cup {<<"(">> \o a \o <<")", ",">> \o b : a \in CommaSides, b \in CommaSides}

CommaInputs == CommaInside \cup CommaInCall \cup CommaOutside \cup ParenInputs

\* a comma with no parenthesis open
HasCommaOutside(s) == \E j \in 1..Len(s) : s[j] = "," /\ Depth(s, j) <= 0

\* the two sides of the comma of "(a,b)" and "ln(a,b)"
CommaAt(s) == CHOOSE j \in 1..Len(s) : s[j] = ","
Before(s, from) == SubSeq(s, from, CommaAt(s) - 1)
After(s) == SubSeq(s, CommaAt(s) + 1, Len(s) - 1)

\* the RPN of one side on its own
RpnOf(a) == toRPN(tokenize(a).toks).toks

InitCommas == PageLoaded(NoKeys) /\ EvalStart(CommaInputs)
SpecCommas == InitCommas /\ [][NextEval]_vars

\* C17: at a comma the operators above the innermost open '(' go to the
\* output and the '(' stays, so that "(a,b)" gives the RPN of a followed by
\* that of b and "ln(a,b)" the same followed by ln; a comma with no
\* parenthesis open makes toRPN fail, with the misplaced-comma error when
\* nothing before it has failed, and no RPN sequence is returned
C17_CommaPopsToParen ==
  AfterToRPN =>
    /\ input \in CommaInside =>
          rpn = RpnOf(Before(input, 2)) \o RpnOf(After(input))
    /\ input \in CommaInCall =>
          rpn = RpnOf(Before(input, 4)) \o RpnOf(After(input))
                  \o <<Tok("name", "ln")>>
    /\ HasCommaOutside(input) =>
          /\ pc = "failed" /\ rpn = <<>>
          /\ outcome.status = "error"
          /\ CommaOutsideFirst(input) => outcome.err = MisplacedComma

C17_Witness ==
  /\ AfterToRPN
  /\ input = Parenthesised(<<"1", "+", "2">>, <<"2", "*", "1">>)
  /\ rpn = <<NumTok(One), NumTok(IntV(2)), Tok("op", "+"),
             NumTok(IntV(2)), NumTok(One), Tok("op", "*")>>

-----------------------------------------------------------------------------
(***************************************************************************)
(* The tokens of tokenize                                                  *)
(***************************************************************************)
\* generated texts have at most MaxChars characters
MaxChars == 2

TokenChars ==
  {"1", "a", "B", " ", "(", ")", ",", "!", "%", "+", "-", "*", "/", "^",
   DivSign, TimesSign, MinusSign, EmDash}

TokenInputs == UNION {Strings(TokenChars, n) : n \in 1 .. MaxChars}

\* tokenize applied to the text as it is; internalEvaluateExpression hands
\* it the text stripped of whitespace and with three of the four Unicode
\* symbols replaced already
TokenizeText ==
  /\ pc = "start"
  /\ LET r == tokenize(input) IN
       /\ tokens' = r.toks
       /\ pc' = IF r.status = "ok" THEN "tokenized" ELSE "failed"
       /\ outcome' = IF r.status = "ok" THEN outcome
                     ELSE Outcome("error", NaN, r.err, <<>>)
  /\ UNCHANGED <<input, rpn, ev, uiVars, aiVars>>

InitTokens == PageLoaded(NoKeys) /\ EvalStart(TokenInputs)
NextTokens == TokenizeText \/ ToRPN
SpecTokens == InitTokens /\ [][NextTokens]_vars

\* the names that the letters and digits of TokenChars make, in lower case
LowerNames ==
  {Join(w) : w \in {v \in UNION {Strings({"1", "a", "b"}, n) : n \in 1 .. MaxChars} :
                      v[1] # "1"}}

\* the token each character that is a token by itself is emitted as
Emitted(c) ==
  CASE c = "("                       -> Tok("lparen", "(")
    [] c = ")"                       -> Tok("rparen", ")")
    [] c = ","                       -> Tok("comma", ",")
    [] c \in {"!", "%"}              -> Tok("postfix", c)
    [] c \in {"+", "-", "*", "/", "^"} -> Tok("op", c)
    [] c = DivSign                   -> Tok("op", "/")
    [] c = TimesSign                 -> Tok("op", "*")
    [] c \in {MinusSign, EmDash}     -> Tok("op", "-")

SymbolChars == TokenChars \ {"1", "a", "B", " "}

IsTokenizeToken(t) ==
  \/ t.type = "number" /\ t.num.k = "rat" /\ t.num.n >= 0
  \/ t.type = "name" /\ t.value \in LowerNames
  \/ \E c \in SymbolChars \cap {"(", ")", ",", "!", "%", "+", "-", "*", "/", "^"} :
        t = Emitted(c)

\* C18: tokenize returns number, name, parenthesis, comma, postfix and
\* operator tokens only, the operators with one of the symbols + - * / ^;
\* each Unicode operator sign comes out as its ASCII operator, each name in
\* lower case, and no token is the unary-minus marker
C18_TokenAlphabet ==
  /\ \A i \in DOMAIN tokens :
        IsTokenizeToken(tokens[i]) /\ tokens[i] # UnaryMinusTok
  /\ (pc = "tokenized" /\ \A i \in DOMAIN input : input[i] \in SymbolChars) =>
        tokens = [i \in DOMAIN input |-> Emitted(input[i])]

C18_Witness ==
  /\ pc = "parsed"
  /\ input = <<EmDash, "B">>
  /\ tokens = <<Tok("op", "-"), Tok("name", "b")>>
  /\ rpn = <<Tok("name", "b"), UnaryMinusTok>>

-----------------------------------------------------------------------------
(***************************************************************************)
(* Number literals                                                         *)
(***************************************************************************)
NumberChars == {"1", "2", ".", "+", "#", " ", "a"}
NumberInputs == UNION {Strings(NumberChars, n) : n \in 1 .. MaxLen}

InitNumbers == PageLoaded(NoKeys) /\ EvalStart(NumberInputs)
SpecNumbers == InitNumbers /\ [][NextTokens]_vars

\* a character of the class [0-9.]
InRun(c) == c \in {"1", "2", "."}

\* in a text without letters a run of [0-9.] starts at i
RunStart(s, i) == InRun(s[i]) /\ (i = 1 \/ ~InRun(s[i - 1]))
RunEnd(s, i) ==
  CHOOSE j \in i .. Len(s) :
    /\ \A k \in i .. j : InRun(s[k])
    /\ j = Len(s) \/ ~InRun(s[j + 1])
Run(s, i) == SubSeq(s, i, RunEnd(s, i))
Dots(r) == Cardinality({k \in DOMAIN r : r[k] = "."})

\* a '.' at the start of a token that no digit follows
LoneDot(s, i) ==
  RunStart(s, i) /\ s[i] = "." /\ (i = Len(s) \/ s[i + 1] \notin {"1", "2"})
TooManyDots(s, i) == RunStart(s, i) /\ ~LoneDot(s, i) /\ Dots(Run(s, i)) > 1
Offences(s) ==
  {i \in DOMAIN s : s[i] = "#" \/ LoneDot(s, i) \/ TooManyDots(s, i)}
FirstOffence(s) == CHOOSE i \in Offences(s) : \A j \in Offences(s) : i <= j

RECURSIVE RefInt(_)
RefInt(ds) ==
  IF ds = <<>> THEN 0
  ELSE 10 * RefInt(SubSeq(ds, 1, Len(ds) - 1))
         + (IF ds[Len(ds)] = "1" THEN 1 ELSE 2)

RECURSIVE RefPow10(_)
RefPow10(k) == IF k = 0 THEN 1 ELSE 10 * RefPow10(k - 1)

\* the number that a run with at most one '.' denotes
RefNumber(r) ==
  LET dot == IF Dots(r) = 0 THEN Len(r)
             ELSE CHOOSE k \in DOMAIN r : r[k] = "."
  IN  MkRat(RefInt(SelectSeq(r, LAMBDA c : c # ".")), RefPow10(Len(r) - dot))

Numbers(toks) == SelectSeq(toks, LAMBDA t : t.type = "number")
RunsUpTo(s, i) == Cardinality({j \in 1 .. i : RunStart(s, j)})
LetterFree(s) == \A i \in DOMAIN s : s[i] # "a"

\* C19: in a text without letters every maximal run of digits and '.' that
\* starts with a digit, or with a '.' before a digit, is one number token
\* with the value of the run; the first run with more than one '.' makes
\* tokenize fail with the invalid-number error, the first '.' that starts a
\* token without a digit after it, or the first unknown character, with the
\* unexpected-character error; a failure returns no tokens, and the
\* invalid-number error needs two '.' in the text
C19_NumberRuns ==
  /\ (pc = "tokenized" /\ LetterFree(input)) =>
        /\ Offences(input) = {}
        /\ Len(Numbers(tokens)) = RunsUpTo(input, Len(input))
        /\ \A i \in DOMAIN input :
              RunStart(input, i) =>
                Numbers(tokens)[RunsUpTo(input, i)] = NumTok(RefNumber(Run(input, i)))
  /\ (pc = "failed" /\ LetterFree(input)) =>
        /\ Offences(input) # {}
        /\ outcome.err =
              IF TooManyDots(input, FirstOffence(input)) THEN "Invalid number"
              ELSE "Unexpected character: " \o input[FirstOffence(input)]
  /\ pc = "failed" =>
        /\ tokens = <<>>
        /\ outcome.status = "error"
        /\ outcome.err \in {"Invalid number", "Unexpected character: .",
                             "Unexpected character: #"}
        /\ outcome.err = "Invalid number" => Dots(input) > 1

C19_Witness ==
  /\ pc = "failed"
  /\ input = <<"1", ".", "2", ".">>
  /\ outcome.err = "Invalid number"

-----------------------------------------------------------------------------
(***************************************************************************)
(* 'equals' that fails or has nothing to evaluate                          *)
(***************************************************************************)
\* handleInput({action: 'equals'}) returning at once: the calculator is
\* locked, or expr is empty
EqualsIgnored ==
  /\ locked \/ expr = <<>>
  /\ UNCHANGED vars

FailChars == {"1", ".", "/", "(", ")"}

\* texts the keys can leave in expr: a second operator replaces the first
FailInputs ==
  {s \in UNION {Strings(FailChars, n) : n \in 0 .. MaxLen} :
     \A i \in 1 .. (Len(s) - 1) : ~(InOps(s[i]) /\ InOps(s[i + 1]))}

InitFailed ==
  /\ \E e \in FailInputs : \E n \in {0, HistoryCap} :
        LoadedLog(KeydownKeys, e, StoredLog(n))
  /\ EvalIdle

NextFailed == Equals \/ EqualsIgnored \/ Clear
SpecFailed == InitFailed /\ [][NextFailed]_vars

\* the equals handler, whichever way it goes
EqualsHandler == Equals \/ EqualsIgnored

\* C20 as stated: an 'equals' whose evaluation throws changes locked and
\* nothing else, and 'equals' on an empty expr changes nothing
C20_FailedEqualsOnlyLocks ==
  /\ [][(Equals /\ locked') =>
          UNCHANGED <<expr, useDegrees, history, stored, display, keys, aiVars,
                      evalVars>>]_vars
  /\ [](expr = <<>> => ~ENABLED <<EqualsHandler>>_vars)

\* C20 amended: an 'equals' whose evaluation throws sets locked, puts
\* "Error" on the display and changes nothing else: expr, the history and
\* its copy in localStorage are as before; 'equals' on an empty expr
\* changes nothing
C20_FailedEqualsFrame ==
  /\ [][(Equals /\ locked') =>
          /\ display' = ErrorText
          /\ UNCHANGED <<expr, useDegrees, history, stored, keys, aiVars,
                         evalVars>>]_vars
  /\ [](expr = <<>> => ~ENABLED <<EqualsHandler>>_vars)

C20_Witness ==
  /\ locked
  /\ expr = <<"1", ".", ".">>
  /\ display = ErrorText
  /\ history = StoredLog(HistoryCap)
  /\ stored = history

=============================================================================
